---- MODULE Spec2Model ----
(***************************************************************************)
(* A model of the Vector value type of src/src/vector.py.                  *)
(*                                                                         *)
(* Numbers.  Python floats are modelled by a scaled-down binary format: a  *)
(* number is a sign and a magnitude counted in units of 2^-FracBits.       *)
(* Every arithmetic operation rounds its exact result to the nearest       *)
(* representable number (ties to even), a non-zero exact result below half *)
(* a unit becomes zero (underflow), and zero carries a sign, as in IEEE    *)
(* 754.  The format is coarser than binary64 and has no upper range limit; *)
(* the guards of the actions keep the stored coordinates small instead.    *)
(*                                                                         *)
(* Objects.  heap is the sequence of the Vector objects the caller holds   *)
(* in variables; the index of an object is its identity.  result is the    *)
(* outcome of the last call: the value it returned or the exception it     *)
(* raised.  A Vector a call returns is a temporary until the caller        *)
(* assigns it to a variable (Keep).                                        *)
(***************************************************************************)
EXTENDS Integers, Sequences, FiniteSets, TLC

VARIABLES heap, result

vars == <<heap, result>>

(***************************************************************************)
(* Bounds of the model.                                                    *)
(***************************************************************************)
FracBits == 10
MaxDim == 2
MaxCoord == 1
MaxVectors == 2
MaxAbs == 4

Scale == 2 ^ FracBits

(***************************************************************************)
(* Numbers                                                                 *)
(***************************************************************************)
Min(a, b) == IF a <= b THEN a ELSE b

Max(a, b) == IF a >= b THEN a ELSE b

\* n / d rounded to the nearest integer, ties to even (n >= 0, d > 0).
RoundDiv(n, d) ==
  LET q == n \div d
      r == n % d
  IN  IF 2 * r < d THEN q
      ELSE IF 2 * r > d THEN q + 1
      ELSE IF q % 2 = 0 THEN q ELSE q + 1

RECURSIVE FloorSqrtIn(_, _, _)
\* The largest r in lo..hi with r * r <= n (lo * lo <= n is given).
FloorSqrtIn(n, lo, hi) ==
  IF lo >= hi THEN lo
  ELSE LET mid == (lo + hi + 1) \div 2
       IN  IF mid * mid <= n THEN FloorSqrtIn(n, mid, hi)
           ELSE FloorSqrtIn(n, lo, mid - 1)

\* sqrt(n) rounded to the nearest integer.
RoundSqrt(n) ==
  LET r == FloorSqrtIn(n, 0, Min(n, 46340))
  IN  IF n - r * r > r THEN r + 1 ELSE r

Num(n) == [neg |-> n < 0, mag |-> IF n < 0 THEN -n ELSE n]

Val(x) == IF x.neg THEN -x.mag ELSE x.mag

PosZero == [neg |-> FALSE, mag |-> 0]

FromInt(k) == Num(k * Scale)

\* The smallest positive number of the format.
Tiny == [neg |-> FALSE, mag |-> 1]

\* x == y on floats: the two zeros are equal.
NumEq(x, y) == Val(x) = Val(y)

FAdd(x, y) ==
  LET v == Val(x) + Val(y)
  IN  IF v = 0 THEN [neg |-> x.mag = 0 /\ x.neg /\ y.neg, mag |-> 0]
      ELSE Num(v)

FSub(x, y) == FAdd(x, [neg |-> ~y.neg, mag |-> y.mag])

FMul(x, y) == [neg |-> x.neg # y.neg, mag |-> RoundDiv(x.mag * y.mag, Scale)]

\* x / y for y # 0; a zero y raises ZeroDivisionError at the call sites.
FDiv(x, y) == [neg |-> x.neg # y.neg, mag |-> RoundDiv(x.mag * Scale, y.mag)]

\* c ** 2
FSquare(x) == [neg |-> FALSE, mag |-> RoundDiv(x.mag * x.mag, Scale)]

\* math.sqrt(x) for x >= 0
FSqrt(x) == [neg |-> x.neg, mag |-> RoundSqrt(x.mag * Scale)]

RECURSIVE SumFrom(_, _, _)
\* sum(...): the running total starts at 0 and adds the items left to right.
SumFrom(total, s, i) ==
  IF i > Len(s) THEN total ELSE SumFrom(FAdd(total, s[i]), s, i + 1)

Sum(s) == SumFrom(PosZero, s, 1)

\* '{:.3f}'.format(x): the sign and the thousandths, rounded.  The whole
\* part and the fraction are converted apart to keep the products small.
Fmt3(x) ==
  [neg |-> x.neg,
   mil |-> (x.mag \div Scale) * 1000 + RoundDiv((x.mag % Scale) * 1000, Scale)]

\* math.isclose(a, b, abs_tol=1e-10), with the default rel_tol of 1e-09:
\* abs(a - b) <= max(rel_tol * max(abs(a), abs(b)), abs_tol), in units.
IsClose(a, b) ==
  LET d == IF Val(a) >= Val(b) THEN Val(a) - Val(b) ELSE Val(b) - Val(a)
      rel == Max(a.mag, b.mag) \div (10 ^ 9)
      abstol == (Scale \div (10 ^ 5)) \div (10 ^ 5)
  IN  d <= Max(rel, abstol)

(***************************************************************************)
(* Outcomes of a call: a returned value or a raised exception.             *)
(***************************************************************************)
Ok(v) == [ok |-> TRUE, val |-> v]

\* The message of an exception is a sequence of text fragments followed by
\* the formatted vector it names (arg, empty when it names none).
Raise(exc, text, arg) == [ok |-> FALSE, val |-> [exc |-> exc, text |-> text, arg |-> arg]]

\* 'needle' in str(e)
InStr(needle, e) == \E i \in 1..Len(e.text) : e.text[i] = needle

(***************************************************************************)
(* Vector                                                                  *)
(***************************************************************************)
\* The arguments a caller can hand to the constructor.
NoneArg == [type |-> "None", items |-> <<>>, n |-> 0]

IntArg(k) == [type |-> "int", items |-> <<>>, n |-> k]

ListArg(s) == [type |-> "list", items |-> s, n |-> 0]

IterArg(s) == [type |-> "iterator", items |-> s, n |-> 0]

\* bool(coordinates)
Truthy(c) ==
  CASE c.type = "None" -> FALSE
    [] c.type = "int" -> c.n # 0
    [] c.type = "list" -> Len(c.items) > 0
    [] c.type = "iterator" -> TRUE

\* Vector without the emptiness test: used to show what the test protects.
VectorInitUnchecked(c) ==
  IF c.type \in {"None", "int", "iterator"}
  THEN Raise("TypeError", <<"The coordinates must be iterable">>, <<>>)
  ELSE Ok([coordinates |-> c.items, dimension |-> Len(c.items)])

\* Vector.__init__
VectorInit(c) ==
  IF ~Truthy(c)
  THEN Raise("ValueError", <<"The coordinates must be nonempty">>, <<>>)
  ELSE IF c.type = "int"
  THEN Raise("TypeError", <<"The coordinates must be iterable">>, <<>>)
  ELSE IF c.type = "iterator"
  THEN Raise("TypeError", <<"The coordinates must be iterable">>, <<>>)
  ELSE Ok([coordinates |-> c.items, dimension |-> Len(c.items)])

\* zip(self.coordinates, other.coordinates)
Zip(s, t) == [i \in 1..Min(Len(s), Len(t)) |-> <<s[i], t[i]>>]

\* Vector.__format__ (and, with the word Vector before it, __repr__)
Format(v) == [i \in 1..v.dimension |-> Fmt3(v.coordinates[i])]

\* Vector.__eq__
VecEq(a, b) ==
  /\ Len(a.coordinates) = Len(b.coordinates)
  /\ \A i \in 1..Len(a.coordinates) : NumEq(a.coordinates[i], b.coordinates[i])

\* Vector.__add__
VecAdd(a, b) ==
  LET chain == Zip(a.coordinates, b.coordinates)
  IN  VectorInit(ListArg([i \in 1..Len(chain) |-> FAdd(chain[i][1], chain[i][2])]))

\* Vector.__sub__
VecSub(a, b) ==
  LET chain == Zip(a.coordinates, b.coordinates)
  IN  VectorInit(ListArg([i \in 1..Len(chain) |-> FSub(chain[i][1], chain[i][2])]))

\* Vector.__mul__
VecMul(a, scalar) ==
  VectorInit(ListArg([i \in 1..Len(a.coordinates) |-> FMul(a.coordinates[i], scalar)]))

\* Vector.__rmul__
VecRMul(a, scalar) == VecMul(a, scalar)

\* Vector.__abs__
VecAbs(a) ==
  FSqrt(Sum([i \in 1..Len(a.coordinates) |-> FSquare(a.coordinates[i])]))

\* Vector.normalize
Normalize(a) ==
  IF VecAbs(a).mag = 0
  THEN Raise("ValueError", <<"Cannot normalize a zero vector", ": Vector">>, Format(a))
  ELSE VecMul(a, FDiv(FromInt(1), VecAbs(a)))

\* Vector.dot
Dot(a, b) ==
  LET chain == Zip(a.coordinates, b.coordinates)
  IN  Sum([i \in 1..Len(chain) |-> FMul(chain[i][1], chain[i][2])])

\* math.acos applied to c, kept as the term acos(c): to degrees when asked.
ACos(c, degrees) == [acos |-> c, degrees |-> degrees]

\* Vector.angle
Angle(a, b, degrees) ==
  LET uv == Normalize(a)
      uw == Normalize(b)
  IN  IF ~uv.ok \/ ~uw.ok
      THEN Raise("ValueError", <<"Cannot compute an angle with a zero vector">>, <<>>)
      ELSE LET c == Dot(uv.val, uw.val)
           IN  IF c.mag > Scale
               THEN Raise("ValueError", <<"math domain error">>, <<>>)
               ELSE Ok(ACos(c, degrees))

\* round(angle, 2) in (0, 180) for an angle in degrees: acos(c) is below
\* 0.005 or above 179.995 degrees, that is abs(c) >= cos(0.005 degrees),
\* which is 1 - 3.8e-9: on the grid, abs(c) is 1.
RoundsTo0Or180(angle) == angle.degrees /\ angle.acos.mag >= Scale

\* Vector.is_parallel
IsParallel(a, b) ==
  LET chain == Zip(a.coordinates, b.coordinates)
      idx == 1..Len(chain)
      divs == {Fmt3(FDiv(chain[i][2], chain[i][1])) : i \in idx}
      inverse == {Fmt3(FDiv(chain[i][1], chain[i][2])) : i \in idx}
  IN  IF \E i \in idx : chain[i][1].mag = 0
      THEN Raise("ZeroDivisionError", <<"division by zero">>, <<>>)
      ELSE IF Cardinality(divs) > 1
      THEN IF \E i \in idx : chain[i][2].mag = 0
           THEN Raise("ZeroDivisionError", <<"division by zero">>, <<>>)
           ELSE Ok(Cardinality(inverse) = 1)
      ELSE Ok(Cardinality(divs) = 1)

\* Vector.is_orthogonal
IsOrthogonal(a, b) == IsClose(Dot(a, b), PosZero)

\* Vector.is_zero
IsZero(a) == IsClose(VecAbs(a), PosZero)

\* Vector.is_parallel_instructor_implementation: the body names v, which is
\* neither a parameter nor a global, so it is evaluated only when
\* self.is_zero() is false, and then the lookup fails.
IsParallelInstructor(a, b) ==
  IF IsZero(a) THEN Ok(TRUE)
  ELSE Raise("NameError", <<"name 'v' is not defined">>, <<>>)

\* Vector.projection
Projection(a, b) ==
  LET norm_b == Normalize(b)
  IN  IF ~norm_b.ok
      THEN IF InStr("Cannot normalize a zero vector", norm_b.val)
           THEN Raise("ValueError",
                      <<"No unique parallel component", " to zero vector Vector">>,
                      Format(b))
           ELSE norm_b
      ELSE VecRMul(norm_b.val, Dot(a, norm_b.val))

\* The handler of orthogonal_component testing for the wrong message.
OrthogonalComponentWrongTest(a, b) ==
  LET p == Projection(a, b)
      r == IF p.ok THEN VecSub(a, p.val) ELSE p
  IN  IF ~r.ok /\ r.val.exc = "ValueError"
      THEN IF InStr("Cannot normalize a zero vector", r.val)
           THEN Raise("ValueError",
                      <<"No unique orthogonal component", " to zero vector Vector">>,
                      Format(b))
           ELSE r
      ELSE r

\* Vector.orthogonal_component
OrthogonalComponent(a, b) ==
  LET p == Projection(a, b)
      r == IF p.ok THEN VecSub(a, p.val) ELSE p
  IN  IF ~r.ok /\ r.val.exc = "ValueError"
      THEN IF InStr("No unique parallel component", r.val)
           THEN Raise("ValueError",
                      <<"No unique orthogonal component", " to zero vector Vector">>,
                      Format(b))
           ELSE r
      ELSE r

(***************************************************************************)
(* The calls a program can make.                                           *)
(***************************************************************************)
\* The coordinates a caller constructs vectors from.
Coords == {FromInt(k) : k \in -MaxCoord..MaxCoord}

Lists == UNION {[1..n -> Coords] : n \in 0..MaxDim} \cup {<<Tiny>>}

CtorArgs ==
  {NoneArg, IntArg(0), IntArg(5), IterArg(<<>>), IterArg(<<FromInt(1)>>)}
    \cup {ListArg(s) : s \in Lists}

Scalars == {FromInt(-1), FromInt(2)}

Ids == 1..Len(heap)

InRange(v) == \A i \in 1..Len(v.coordinates) : v.coordinates[i].mag <= MaxAbs * Scale

NoResult == [op |-> "none", args |-> <<>>, kind |-> "none", val |-> 0, alias |-> 0]

\* A call that returns a Vector (or raises).  Every return statement of the
\* class builds its Vector with a constructor call, so the object returned is
\* a new one: alias, the heap object the returned reference denotes, is 0.
ReturnVector(op, args, out) ==
  /\ out.ok => InRange(out.val)
  /\ heap' = heap
  /\ result' = [op |-> op, args |-> args,
                kind |-> IF out.ok THEN "vector" ELSE "error",
                val |-> out.val, alias |-> 0]

\* A call that returns a number or a boolean (or raises).
ReturnValue(op, args, out) ==
  /\ heap' = heap
  /\ result' = [op |-> op, args |-> args,
                kind |-> IF out.ok THEN "value" ELSE "error",
                val |-> out.val, alias |-> 0]

Init ==
  /\ heap = <<>>
  /\ result = NoResult

\* v = <the Vector just returned>
Keep ==
  /\ result.kind = "vector"
  /\ Len(heap) < MaxVectors
  /\ heap' = Append(heap, result.val)
  /\ result' = NoResult

\* Vector(c): the constructor call of the caller.
New ==
  \E c \in CtorArgs :
    LET out == VectorInit(c)
    IN  /\ heap' = heap
        /\ result' = [op |-> "new", args |-> <<c>>,
                      kind |-> IF out.ok THEN "vector" ELSE "error",
                      val |-> out.val, alias |-> 0]

\* An in-place addition: what __add__ would be if it updated self.
AddInPlace ==
  \E i, j \in Ids :
    LET out == VecAdd(heap[i], heap[j])
    IN  /\ out.ok
        /\ InRange(out.val)
        /\ heap' = [heap EXCEPT ![i] = out.val]
        /\ result' = [op |-> "add", args |-> <<i, j>>, kind |-> "vector",
                      val |-> out.val, alias |-> i]

Add == \E i, j \in Ids : ReturnVector("add", <<i, j>>, VecAdd(heap[i], heap[j]))

Sub == \E i, j \in Ids : ReturnVector("sub", <<i, j>>, VecSub(heap[i], heap[j]))

Mul == \E i \in Ids, k \in Scalars : ReturnVector("mul", <<i, k>>, VecMul(heap[i], k))

RMul == \E i \in Ids, k \in Scalars : ReturnVector("rmul", <<i, k>>, VecRMul(heap[i], k))

Eq == \E i, j \in Ids : ReturnValue("eq", <<i, j>>, Ok(VecEq(heap[i], heap[j])))

Abs == \E i \in Ids : ReturnValue("abs", <<i>>, Ok(VecAbs(heap[i])))

DoNormalize == \E i \in Ids : ReturnVector("normalize", <<i>>, Normalize(heap[i]))

DoDot == \E i, j \in Ids : ReturnValue("dot", <<i, j>>, Ok(Dot(heap[i], heap[j])))

DoAngle ==
  \E i, j \in Ids, degrees \in BOOLEAN :
    ReturnValue("angle", <<i, j, degrees>>, Angle(heap[i], heap[j], degrees))

DoIsParallel ==
  \E i, j \in Ids : ReturnValue("is_parallel", <<i, j>>, IsParallel(heap[i], heap[j]))

DoIsOrthogonal ==
  \E i, j \in Ids : ReturnValue("is_orthogonal", <<i, j>>, Ok(IsOrthogonal(heap[i], heap[j])))

DoIsZero == \E i \in Ids : ReturnValue("is_zero", <<i>>, Ok(IsZero(heap[i])))

DoIsParallelInstructor ==
  \E i, j \in Ids :
    ReturnValue("is_parallel_instructor_implementation", <<i, j>>,
                IsParallelInstructor(heap[i], heap[j]))

DoProjection ==
  \E i, j \in Ids : ReturnVector("projection", <<i, j>>, Projection(heap[i], heap[j]))

DoOrthogonalComponent ==
  \E i, j \in Ids :
    ReturnVector("orthogonal_component", <<i, j>>, OrthogonalComponent(heap[i], heap[j]))

Next ==
  \/ New
  \/ Keep
  \/ Add
  \/ Sub
  \/ Mul
  \/ RMul
  \/ Eq
  \/ Abs
  \/ DoNormalize
  \/ DoDot
  \/ DoAngle
  \/ DoIsParallel
  \/ DoIsOrthogonal
  \/ DoIsZero
  \/ DoIsParallelInstructor
  \/ DoProjection
  \/ DoOrthogonalComponent

Spec == Init /\ [][Next]_vars

(***************************************************************************)
(* The claims.  A and B are the operands of the last call.                 *)
(***************************************************************************)
A == heap[result.args[1]]

B == heap[result.args[2]]

AllZero(v) == \A i \in 1..Len(v.coordinates) : v.coordinates[i].mag = 0

Failed(needle) == result.kind = "error" /\ InStr(needle, result.val)

\* C1: add, subtract and dot of two vectors of different dimensions fail with
\* a dimension-mismatch error instead of computing over the shared prefix.
C1_MismatchRaises ==
  (/\ result.op \in {"add", "sub", "dot"}
   /\ A.dimension # B.dimension)
    => /\ result.kind = "error"
       /\ result.val.exc = "DimensionMismatch"

\* C2: is_parallel of two vectors of one dimension, one of them all zero,
\* returns true, whichever operand is the zero one and whatever the signs of
\* the other's coordinates, without a division error.
C2_ZeroIsParallel ==
  (/\ result.op = "is_parallel"
   /\ A.dimension = B.dimension
   /\ AllZero(A) \/ AllZero(B))
    => /\ result.kind = "value"
       /\ result.val = TRUE

\* y is k * x for one of the non-zero scalars k.
IsMultiple(x, y) ==
  \E k \in Scalars : k.mag # 0 /\ VecMul(x, k).val.coordinates = y.coordinates

\* C3: for a non-zero a and a non-zero k, is_parallel(a, k*a) and
\* is_parallel(k*a, a) return true, also when some coordinates of a are zero.
C3_MultipleIsParallel ==
  (/\ result.op = "is_parallel"
   /\ \/ ~AllZero(A) /\ IsMultiple(A, B)
      \/ ~AllZero(B) /\ IsMultiple(B, A))
    => /\ result.kind = "value"
       /\ result.val = TRUE

\* C4: for every v and every non-zero basis (one of non-zero magnitude),
\* projection(v, basis) + orthogonal_component(v, basis) has the dimension of
\* v and, within the tolerance of is_zero, its coordinates.
C4_Decomposition ==
  \A i, j \in Ids :
    ~IsZero(heap[j]) =>
      LET v == heap[i]
          p == Projection(v, heap[j])
          o == OrthogonalComponent(v, heap[j])
      IN  /\ p.ok
          /\ o.ok
          /\ VecAdd(p.val, o.val).ok
          /\ VecAdd(p.val, o.val).val.dimension = v.dimension
          /\ \A n \in 1..v.dimension :
               IsClose(VecAdd(p.val, o.val).val.coordinates[n], v.coordinates[n])

\* C5: with a zero basis, projection fails with its own message and
\* orthogonal_component with its own; neither lets the normalization message
\* through, and orthogonal_component does not let the projection message
\* through.
C5_ZeroBasisMessages ==
  /\ (result.op = "projection" /\ AllZero(B))
       => /\ Failed("No unique parallel component")
          /\ result.val.exc = "ValueError"
          /\ ~InStr("Cannot normalize a zero vector", result.val)
  /\ (result.op = "orthogonal_component" /\ AllZero(B))
       => /\ Failed("No unique orthogonal component")
          /\ result.val.exc = "ValueError"
          /\ ~InStr("Cannot normalize a zero vector", result.val)
          /\ ~InStr("No unique parallel component", result.val)

\* orthogonal_component was called with a zero basis of another dimension
\* than the non-zero vector it decomposes.
C5_Witness ==
  /\ result.op = "orthogonal_component"
  /\ AllZero(B)
  /\ ~AllZero(A)
  /\ A.dimension # B.dimension
  /\ result.kind = "error"

\* C6: normalize fails with 'Cannot normalize a zero vector' exactly when
\* every coordinate is zero, otherwise returns scale(v, 1/magnitude(v)) of the
\* same dimension, and never lets a division by zero escape.
C6_NormalizeFailsOnlyOnZero ==
  result.op = "normalize" =>
    /\ Failed("Cannot normalize a zero vector") <=> AllZero(A)
    /\ ~AllZero(A) =>
         /\ result.kind = "vector"
         /\ result.val.dimension = A.dimension
         /\ result.val = VecMul(A, FDiv(FromInt(1), VecAbs(A))).val
    /\ ~(result.kind = "error" /\ result.val.exc = "ZeroDivisionError")

\* C7: construction fails with 'must be nonempty' on an empty sequence, with
\* 'must be iterable' on what is not a sequence (None, 0, a number, a one-shot
\* iterator), and succeeds on a non-empty sequence with dimension its length.
C7_ConstructionOutcomes ==
  result.op = "new" =>
    LET c == result.args[1]
    IN  /\ (c.type = "list" /\ Len(c.items) = 0)
             => Failed("The coordinates must be nonempty")
        /\ c.type \in {"None", "int", "iterator"}
             => Failed("The coordinates must be iterable")
        /\ (c.type = "list" /\ Len(c.items) > 0)
             => /\ result.kind = "vector"
                /\ result.val.dimension = Len(c.items)

WellFormed(v) == v.dimension >= 1 /\ v.dimension = Len(v.coordinates)

\* C8: every Vector that exists, held or just returned, has dimension >= 1
\* and as many coordinates as its dimension.
C8_DimensionInvariant ==
  /\ \A i \in Ids : WellFormed(heap[i])
  /\ result.kind = "vector" => WellFormed(result.val)

\* A subtraction of vectors of different dimensions returned a Vector.
C8_Witness ==
  /\ result.op = "sub"
  /\ result.kind = "vector"
  /\ A.dimension # B.dimension

\* C9: no call changes a Vector the caller holds, whether it returns or
\* raises, and a Vector it returns is a new object.
C9_NoMutation ==
  [][/\ Len(heap') >= Len(heap)
     /\ \A i \in Ids : heap'[i] = heap[i]
     /\ result'.kind = "vector" => result'.alias = 0]_vars

\* An addition of two different held vectors returned a Vector.
C9_Witness ==
  /\ result.op = "add"
  /\ result.kind = "vector"
  /\ result.args[1] # result.args[2]

\* The angle between a and b, in degrees and rounded to 2 places, is 0 or 180.
FlatAngle(a, b) ==
  LET r == Angle(a, b, TRUE)
  IN  r.ok /\ RoundsTo0Or180(r.val)

\* C10: the angle-based parallel check returns a boolean without raising:
\* true if either operand is zero, otherwise true iff the angle is 0 or 180.
C10_InstructorReturnsBoolean ==
  (/\ result.op = "is_parallel_instructor_implementation"
   /\ A.dimension = B.dimension)
    => /\ result.kind = "value"
       /\ result.val <=> (AllZero(A) \/ AllZero(B) \/ FlatAngle(A, B))

====
